---------------------------- MODULE Spec2Model ----------------------------
(***************************************************************************)
(* Model of src/src/matrix_wrappers.cu: the matrix primitives (mult,       *)
(* multD, transpose), the fitting kernels (flinear, lincoef), the two      *)
(* finite-difference Jacobian estimators and the SVD wrapper.              *)
(*                                                                         *)
(* Four specifications, one per family of primitives:                      *)
(*   SpecJac        jacobian / jacobian_v2 driving the flinear evaluator   *)
(*   SpecTranspose  transpose and its kernel transpose_                    *)
(*   SpecLinalg     mult, multD and svd (library handles, scratch buffers) *)
(*   SpecLincoef    lincoef and its kernel lincoef_                        *)
(***************************************************************************)
EXTENDS Integers, Sequences, FiniteSets, TLC

(***************************************************************************)
(* IEEE-754 binary32 (the C type float), round-to-nearest-even.            *)
(* A finite value is (-1)^s * m * 2^e in canonical form: m = 0 (zero),     *)
(* or 2^23 <= m < 2^24 with -149 <= e <= 104 (normal), or m < 2^23 with    *)
(* e = -149 (subnormal).  Canonical records are equal exactly when the     *)
(* floats are bit-identical (NaN payloads are not distinguished).          *)
(***************************************************************************)
RECURSIVE Pow2(_)
Pow2(n) == IF n <= 0 THEN 1 ELSE 2 * Pow2(n - 1)

RECURSIVE BitLen(_)
BitLen(m) == IF m = 0 THEN 0 ELSE 1 + BitLen(m \div 2)

Max(a, b) == IF a >= b THEN a ELSE b
Min(a, b) == IF a <= b THEN a ELSE b

MantBits == 24
EMin == -149
EMax == 104

FNaN == [c |-> "nan", s |-> 0, m |-> 0, e |-> 0]
FInf(s) == [c |-> "inf", s |-> s, m |-> 0, e |-> 0]
FZero(s) == [c |-> "fin", s |-> s, m |-> 0, e |-> EMin]
Fin(s, m, e) == [c |-> "fin", s |-> s, m |-> m, e |-> e]

IsFinite(x) == x.c = "fin"
IsZero(x) == x.c = "fin" /\ x.m = 0
FNeg(x) == IF x.c = "nan" THEN x ELSE [x EXCEPT !.s = 1 - x.s]

\* Rounds (-1)^s * (m + t) * 2^e to binary32, where 0 <= m < 2^31 and
\* t = 0 when st is FALSE, 0 < t < 1 when st is TRUE (sticky bit).
RoundPack(s, m, e, st) ==
    IF m = 0 /\ ~st THEN FZero(s)
    ELSE LET sh == Max(BitLen(m) - MantBits, EMin - e)
         IN  IF sh <= 0
             THEN (IF e + sh > EMax THEN FInf(s) ELSE Fin(s, m * Pow2(-sh), e + sh))
             ELSE LET big  == sh > 30
                      q    == IF big THEN 0 ELSE m \div Pow2(sh)
                      r    == IF big THEN m ELSE m % Pow2(sh)
                      half == IF big THEN Pow2(30) ELSE Pow2(sh - 1)
                      up   == IF sh > 31 THEN FALSE
                              ELSE r > half \/ (r = half /\ (st \/ q % 2 = 1))
                      q1   == IF up THEN q + 1 ELSE q
                      m2   == IF q1 = Pow2(MantBits) THEN Pow2(MantBits - 1) ELSE q1
                      e2   == IF q1 = Pow2(MantBits) THEN e + sh + 1 ELSE e + sh
                  IN  IF m2 = 0 THEN FZero(s)
                      ELSE IF e2 > EMax THEN FInf(s)
                      ELSE Fin(s, m2, e2)

\* x * 2^k (exact unless the result is subnormal or overflows).
FScale2(x, k) ==
    IF x.c # "fin" THEN x
    ELSE IF x.m = 0 THEN x
    ELSE RoundPack(x.s, x.m, x.e + k, FALSE)

\* Magnitude order of two finite canonical values: |x| <= |y|.
MagLeq(x, y) == x.e < y.e \/ (x.e = y.e /\ x.m <= y.m)

\* Sum of two finite values with a.e >= b.e, a # 0: a is kept with 6 extra
\* low bits; the bits of b below them are folded into the sticky bit.
AddAligned(a, b) ==
    LET d == a.e - b.e
    IN  IF d <= 6
        THEN LET A == a.m * Pow2(d)
                 v == (IF a.s = 0 THEN A ELSE -A) + (IF b.s = 0 THEN b.m ELSE -b.m)
             IN  IF v = 0 THEN FZero(IF a.s = 1 /\ b.s = 1 THEN 1 ELSE 0)
                 ELSE IF v > 0 THEN RoundPack(0, v, b.e, FALSE)
                 ELSE RoundPack(1, -v, b.e, FALSE)
        ELSE LET A  == a.m * 64
                 k  == d - 6
                 Bq == IF k > 30 THEN 0 ELSE b.m \div Pow2(k)
                 st == IF k > 30 THEN b.m # 0 ELSE b.m % Pow2(k) # 0
             IN  IF a.s = b.s THEN RoundPack(a.s, A + Bq, a.e - 6, st)
                 ELSE IF st THEN RoundPack(a.s, A - Bq - 1, a.e - 6, TRUE)
                 ELSE RoundPack(a.s, A - Bq, a.e - 6, FALSE)

\* x + y in binary32.
FAdd(x, y) ==
    IF x.c = "nan" \/ y.c = "nan" THEN FNaN
    ELSE IF x.c = "inf" /\ y.c = "inf" THEN (IF x.s = y.s THEN x ELSE FNaN)
    ELSE IF x.c = "inf" THEN x
    ELSE IF y.c = "inf" THEN y
    ELSE IF x.m = 0 /\ y.m = 0 THEN FZero(IF x.s = 1 /\ y.s = 1 THEN 1 ELSE 0)
    ELSE IF x.m = 0 THEN y
    ELSE IF y.m = 0 THEN x
    ELSE IF x.e >= y.e THEN AddAligned(x, y) ELSE AddAligned(y, x)

\* x - y in binary32.
FSub(x, y) == FAdd(x, FNeg(y))

\* x * y in binary32: the 48-bit product of the mantissas is formed from
\* 12-bit halves as hi * 2^24 + lo, then rounded.
FMul(x, y) ==
    IF x.c = "nan" \/ y.c = "nan" THEN FNaN
    ELSE IF x.c = "inf" \/ y.c = "inf"
         THEN (IF IsZero(x) \/ IsZero(y) THEN FNaN ELSE FInf((x.s + y.s) % 2))
    ELSE IF x.m = 0 \/ y.m = 0 THEN FZero((x.s + y.s) % 2)
    ELSE LET s   == (x.s + y.s) % 2
             a1  == x.m \div 4096
             a0  == x.m % 4096
             b1  == y.m \div 4096
             b0  == y.m % 4096
             mid == a1 * b0 + a0 * b1
             lof == a0 * b0 + (mid % 4096) * 4096
             hi  == a1 * b1 + mid \div 4096 + lof \div Pow2(24)
             lo  == lof % Pow2(24)
             k   == 30 - BitLen(hi)
         IN  IF hi = 0 THEN RoundPack(s, lo, x.e + y.e, FALSE)
             ELSE IF k >= 24 THEN RoundPack(s, hi * Pow2(24) + lo, x.e + y.e, FALSE)
             ELSE RoundPack(s, hi * Pow2(k) + lo \div Pow2(24 - k),
                            x.e + y.e + (24 - k), lo % Pow2(24 - k) # 0)

\* n leading quotient bits of r / m (0 < r < 2m), and the final remainder.
RECURSIVE DivBits(_, _, _, _)
DivBits(r, m, n, q) ==
    IF n = 0 THEN <<q, r>>
    ELSE IF r >= m THEN DivBits(2 * (r - m), m, n - 1, 2 * q + 1)
    ELSE DivBits(2 * r, m, n - 1, 2 * q)

\* (float)(1. / ((double)x * y)) for floats x and y, y a power of two.  The
\* double product is exact; the double quotient, rounded to 53 bits, rounds
\* to the same float as the exact quotient (a quotient 1/m, m < 2^24 not a
\* power of two, is never within 2^-29 ulp of a 25-bit number).
FRecipProd(x, y) ==
    IF x.c = "nan" THEN FNaN
    ELSE IF x.c = "inf" THEN FZero(x.s)
    ELSE IF x.m = 0 THEN FInf(x.s)
    ELSE LET up == MantBits - BitLen(x.m)
             mn == x.m * Pow2(up)
             k  == y.e + MantBits - 1
             qr == DivBits(Pow2(MantBits - 1), mn, 28, 0)
         IN  RoundPack(x.s, qr[1], -(x.e - up + k) - (MantBits - 1) - 27, qr[2] # 0)

\* (float) of a small non-negative int.
FromInt(n) == RoundPack(0, n, 0, FALSE)

One == Fin(0, 8388608, -23)

(***************************************************************************)
(* State.  pc is the host's position in the running primitive; live is the *)
(* set of device buffers the primitive allocated itself and has not freed; *)
(* handles counts the library handles created and not destroyed.           *)
(***************************************************************************)
VARIABLES pc, live, handles,
          variant, K, N, param, param0, i, temp, dB, scale, prev, next, J,
          calls, jwrites,
          trM, trN, inplace, mem, Ain, srcPtr, blk, blocksDone, tpc, tile,
          written, readIdx, fault,
          op, laM, laN, laK, TA, TB, alpha, beta, matA, matB, matC, status,
          ncalls,
          lcN, lcA, lpc, lcWrites

hostVars == <<pc, live, handles>>
jacVars == <<variant, K, N, param, param0, i, temp, dB, scale, prev, next, J,
             calls, jwrites>>
trVars == <<trM, trN, inplace, mem, Ain, srcPtr, blk, blocksDone, tpc, tile,
            written, readIdx, fault>>
laVars == <<op, laM, laN, laK, TA, TB, alpha, beta, matA, matB, matC, status,
            ncalls>>
lcVars == <<lcN, lcA, lpc, lcWrites>>
vars == <<hostVars, jacVars, trVars, laVars, lcVars>>

(***************************************************************************)
(* Bounds of the model.                                                    *)
(***************************************************************************)
MaxN == 2
MaxDim == 3
MaxCalls == 2
MaxCoefN == 4
MaxMat == 2

(***************************************************************************)
(* vector:: primitives (vector_wrappers, not part of the source slice):    *)
(* element-wise subtract, scale and copy over device buffers.              *)
(***************************************************************************)
VectorSub(a, b, n) == [k \in 0..(n - 1) |-> FSub(a[k], b[k])]
VectorMult(a, c, n) == [k \in 0..(n - 1) |-> FMul(a[k], c)]

\* buf with vals[0..n-1] stored at offsets off..off+n-1.
WriteAt(buf, off, vals, n) ==
    [k \in DOMAIN buf |-> IF k >= off /\ k < off + n THEN vals[k - off] ELSE buf[k]]

\* The n values of buf at offsets off..off+n-1.
Slice(buf, off, n) == [k \in 0..(n - 1) |-> buf[off + k]]

(***************************************************************************)
(* fit::flinear: A[i] = a * i + b for i < N, a = param[0], b = param[1].   *)
(* (i < N <= 3, so a * i is exact and a fused multiply-add gives the same  *)
(* value as a multiply followed by an add.)                                *)
(***************************************************************************)
NParams == 2

flinear(p, n) == [t \in 0..(n - 1) |-> FAdd(FMul(p[0], FromInt(t)), p[1])]

(***************************************************************************)
(* fit::jacobian and fit::jacobian_v2.                                     *)
(***************************************************************************)
Eps17 == Fin(0, 8388608, -40)       \* pow(2,-17)
Eps10 == Fin(0, 8388608, -33)       \* pow(2,-10)
F1e30 == Fin(0, 10633824, -123)     \* (float)1e-30
\* the largest float below the double 1e-31: for a float x,
\* x < 1e-31 && x > -1e-31 exactly when |x| <= Lim1e31
Lim1e31 == Fin(0, 8507059, -126)

\* param[i] += eps
PerturbFixed(p) == FAdd(p, Eps17)

\* dB = param[i] * eps; if (dB < 1e-31 && dB > -1e-31) dB = 1e-30;
StepV2(p) ==
    LET d == FMul(p, Eps10)
    IN  IF d.c = "fin" /\ MagLeq(d, Lim1e31) THEN F1e30 ELSE d

\* scale = (float) (1./((double)temp * eps));
ScaleV2(t) == FRecipProd(t, Eps10)

\* float(1./eps)
ScaleFixed == FRecipProd(Eps17, One)

\* a restore that always writes slot 0
RestoreSlotZero(p, idx, t) == [p EXCEPT ![0] = t]

\* a restore that is left out
RestoreSkipped(p, idx, t) == p

\* param[i] = temp;
Restore(p, idx, t) == [p EXCEPT ![idx] = t]

\* values the parameters are drawn from: 0, 1, -3, 256 (2^-17 is a quarter
\* of its ulp), 2^-90 (relative step 2^-100, between 1e-31 and 1e-30),
\* 2^-100 (relative step below 1e-31), 2^-140 (relative step underflows)
ParamVals ==
    { FZero(0), One, Fin(1, 12582912, -22), Fin(0, 8388608, -15),
      Fin(0, 8388608, -113), Fin(0, 8388608, -123), Fin(0, 512, -149) }

Junk == FromInt(7)

AfterIter(v, k, idx) ==
    IF idx < k THEN "loop" ELSE IF v = "jacobian" THEN "scale" ELSE "free"

\* no Jacobian call in progress
JacIdle ==
    /\ variant = "none"
    /\ K = 0
    /\ N = 0
    /\ param = <<>>
    /\ param0 = <<>>
    /\ i = 0
    /\ temp = 0
    /\ dB = 0
    /\ scale = 0
    /\ prev = <<>>
    /\ next = <<>>
    /\ J = <<>>
    /\ calls = <<>>
    /\ jwrites = <<>>

\* no transpose in progress
TrIdle ==
    /\ trM = 0
    /\ trN = 0
    /\ inplace = FALSE
    /\ mem = <<>>
    /\ Ain = <<>>
    /\ srcPtr = "null"
    /\ blk = <<>>
    /\ blocksDone = {}
    /\ tpc = <<>>
    /\ tile = <<>>
    /\ written = {}
    /\ readIdx = {}
    /\ fault = {}

\* no mult, multD or svd in progress
LaIdle ==
    /\ op = "none"
    /\ laM = 0
    /\ laN = 0
    /\ laK = 0
    /\ TA = FALSE
    /\ TB = FALSE
    /\ alpha = 0
    /\ beta = 0
    /\ matA = <<>>
    /\ matB = <<>>
    /\ matC = <<>>
    /\ status = "SUCCESS"
    /\ ncalls = 0

\* no lincoef in progress
LcIdle ==
    /\ lcN = 0
    /\ lcA = <<>>
    /\ lpc = <<>>
    /\ lcWrites = {}

InitJac ==
    /\ TrIdle
    /\ LaIdle
    /\ LcIdle
    /\ pc = "entry"
    /\ live = {}
    /\ handles = 0
    /\ variant \in {"jacobian", "jacobian_v2"}
    /\ K \in 0..NParams
    /\ N \in 1..MaxN
    /\ param \in [0..(NParams - 1) -> ParamVals]
    /\ param0 = param
    /\ i = 0
    /\ temp = Junk
    /\ dB = Junk
    /\ scale = Junk
    /\ prev = [k \in 0..(N - 1) |-> Junk]
    /\ next = [k \in 0..(N - 1) |-> Junk]
    /\ J = [k \in 0..(N * K - 1) |-> Junk]
    /\ calls = <<>>
    /\ jwrites = <<>>

\* cudaMalloc(&prev, ...); cudaMalloc(&next, ...);
JacAlloc ==
    /\ pc = "entry"
    /\ live' = live \cup {"prev", "next"}
    /\ pc' = "baseline"
    /\ UNCHANGED <<handles, jacVars, trVars, laVars, lcVars>>

\* f(prev, param, N);
JacBaseline ==
    /\ pc = "baseline"
    /\ prev' = flinear(param, N)
    /\ calls' = Append(calls, [buf |-> "prev", param |-> param])
    /\ i' = 0
    /\ pc' = AfterIter(variant, K, 0)
    /\ UNCHANGED <<trVars, laVars, lcVars, live, handles, variant,
                   K, N, param, param0, temp, dB, scale,
                   next, J, jwrites>>

\* jacobian: temp = param[i]; param[i] += eps;
JacPerturb ==
    /\ pc = "loop"
    /\ variant = "jacobian"
    /\ temp' = param[i]
    /\ param' = [param EXCEPT ![i] = PerturbFixed(param[i])]
    /\ pc' = "probe"
    /\ UNCHANGED <<trVars, laVars, lcVars, live, handles, variant, K, N, param0, i,
                   dB, scale, prev, next, J, calls, jwrites>>

\* jacobian_v2: temp = param[i]; dB = ...; param[i] += dB; scale = ...;
JacPerturbV2 ==
    /\ pc = "loop"
    /\ variant = "jacobian_v2"
    /\ temp' = param[i]
    /\ dB' = StepV2(param[i])
    /\ param' = [param EXCEPT ![i] = FAdd(param[i], StepV2(param[i]))]
    /\ scale' = ScaleV2(param[i])
    /\ pc' = "probe"
    /\ UNCHANGED <<trVars, laVars, lcVars, live, handles, variant,
                   K, N, param0, i, prev, next, J,
                   calls, jwrites>>

\* f(next, param, N);
JacProbe ==
    /\ pc = "probe"
    /\ next' = flinear(param, N)
    /\ calls' = Append(calls, [buf |-> "next", param |-> param])
    /\ pc' = "column"
    /\ UNCHANGED <<trVars, laVars, lcVars, live, handles, variant,
                   K, N, param, param0, i, temp, dB, scale,
                   prev, J, jwrites>>

\* jacobian: vector::sub(next, prev, &J[i * N], N);
JacColumn ==
    /\ pc = "column"
    /\ variant = "jacobian"
    /\ J' = WriteAt(J, i * N, VectorSub(next, prev, N), N)
    /\ jwrites' = Append(jwrites, [col |-> i, after |-> Len(calls)])
    /\ pc' = "restore"
    /\ UNCHANGED <<trVars, laVars, lcVars, live, handles, variant,
                   K, N, param, param0, i, temp, dB, scale,
                   prev, next, calls>>

\* jacobian_v2: vector::sub(next, prev, &J[i * N], N);
\*              vector::mult(&J[i * N], scale, &J[i * N], N);
JacColumnV2 ==
    /\ pc = "column"
    /\ variant = "jacobian_v2"
    /\ J' = WriteAt(J, i * N, VectorMult(VectorSub(next, prev, N), scale, N), N)
    /\ jwrites' = Append(jwrites, [col |-> i, after |-> Len(calls)])
    /\ pc' = "restore"
    /\ UNCHANGED <<trVars, laVars, lcVars, live, handles, variant,
                   K, N, param, param0, i, temp, dB, scale,
                   prev, next, calls>>

\* param[i] = temp;  i++
JacRestore ==
    /\ pc = "restore"
    /\ param' = Restore(param, i, temp)
    /\ i' = i + 1
    /\ pc' = AfterIter(variant, K, i + 1)
    /\ UNCHANGED <<trVars, laVars, lcVars, live, handles, variant,
                   K, N, param0, temp, dB, scale, prev,
                   next, J, calls, jwrites>>

\* jacobian: vector::mult(J, float(1./eps), J, N * K);
JacScale ==
    /\ pc = "scale"
    /\ J' = VectorMult(J, ScaleFixed, N * K)
    /\ jwrites' = jwrites \o [c \in 1..K |-> [col |-> c - 1, after |-> Len(calls)]]
    /\ pc' = "free"
    /\ UNCHANGED <<trVars, laVars, lcVars, live, handles, variant,
                   K, N, param, param0, i, temp, dB, scale,
                   prev, next, calls>>

\* if(prev) cudaFree(prev); if(next) cudaFree(next);
JacFree ==
    /\ pc = "free"
    /\ live' = live \ {"prev", "next"}
    /\ pc' = "done"
    /\ UNCHANGED <<handles, jacVars, trVars, laVars, lcVars>>

NextJac ==
    \/ JacAlloc
    \/ JacBaseline
    \/ JacPerturb
    \/ JacPerturbV2
    \/ JacProbe
    \/ JacColumn
    \/ JacColumnV2
    \/ JacRestore
    \/ JacScale
    \/ JacFree

SpecJac == InitJac /\ [][NextJac]_vars

(***************************************************************************)
(* matrix::transpose and its kernel matrix::transpose_.                    *)
(*                                                                         *)
(* mem maps each device buffer to its cells; A and B name the same buffer  *)
(* when the call is in place.  Cells hold opaque values (the kernel only   *)
(* moves them).  The blocks of the grid share no state: the kernel never   *)
(* writes src, and fault records "race" if two threads ever touch the same *)
(* global cell with one of them writing, so the blocks are run one after   *)
(* another in any order while the threads of the running block interleave  *)
(* freely around the barrier.                                              *)
(***************************************************************************)
BLOCK_DIM == 2

Uninit == 0 - 1

Threads == (0..(BLOCK_DIM - 1)) \X (0..(BLOCK_DIM - 1))

\* (M - 1 + BLOCK_DIM) / BLOCK_DIM
GridDim(n) == (n - 1 + BLOCK_DIM) \div BLOCK_DIM

Blocks == (0..(GridDim(trM) - 1)) \X (0..(GridDim(trN) - 1))

\* the buffer the pointer B names
DstPtr == IF inplace THEN "A" ELSE "B"

\* vector::copy(dst, src, n) (vector_wrappers, not part of the source slice)
VectorCopy(src, n) == [k \in 0..(n - 1) |-> src[k]]

\* an index_in that swaps the roles of M and N
IndexInSwapped(x, y, m, n) == x * n + y

\* index_in = yIndex * M + xIndex
IndexIn(x, y, m, n) == y * m + x

\* index_out = yIndex * N + xIndex
IndexOut(x, y, m, n) == y * n + x

InitTranspose ==
    /\ pc = "entry"
    /\ live = {}
    /\ handles = 0
    /\ JacIdle
    /\ LaIdle
    /\ LcIdle
    /\ trM \in 1..MaxDim
    /\ trN \in 1..MaxDim
    /\ inplace \in BOOLEAN
    /\ Ain = [k \in 0..(trM * trN - 1) |-> k + 1]
    /\ mem = IF inplace THEN [b \in {"A"} |-> Ain]
             ELSE [b \in {"A", "B"} |->
                      IF b = "A" THEN Ain ELSE [k \in 0..(trM * trN - 1) |-> 0]]
    /\ srcPtr = "null"
    /\ blk = <<>>
    /\ blocksDone = {}
    /\ tpc = <<>>
    /\ tile = <<>>
    /\ written = {}
    /\ readIdx = {}
    /\ fault = {}

\* if (A == B) { cudaMalloc(&C, ...); vector::copy(C, A, M * N); }
TrSnapshot ==
    /\ pc = "entry"
    /\ inplace
    /\ live' = live \cup {"C"}
    /\ mem' = [b \in DOMAIN mem \cup {"C"} |->
                  IF b = "C" THEN VectorCopy(mem["A"], trM * trN) ELSE mem[b]]
    /\ srcPtr' = "C"
    /\ pc' = "launch"
    /\ UNCHANGED <<handles, jacVars, laVars, lcVars, trM, trN, inplace, Ain, blk,
                   blocksDone, tpc, tile, written, readIdx, fault>>

\* else C = A;
TrAlias ==
    /\ pc = "entry"
    /\ ~inplace
    /\ srcPtr' = "A"
    /\ pc' = "launch"
    /\ UNCHANGED <<live, handles, jacVars, laVars, lcVars, trM, trN, inplace, mem,
                   Ain, blk, blocksDone, tpc, tile, written, readIdx, fault>>

\* transpose_<<<grid, threads>>>(C, B, M, N); the host returns at once
TrLaunch ==
    /\ pc = "launch"
    /\ pc' = "running"
    /\ UNCHANGED <<live, handles, jacVars, trVars, laVars, lcVars>>

\* a block of the grid starts: fresh shared tile, every thread at the load
TrBlockStart ==
    /\ pc = "running"
    /\ blk = <<>>
    /\ \E b \in Blocks \ blocksDone :
          /\ blk' = b
          /\ tpc' = [t \in Threads |-> "load"]
          /\ tile' = [t \in Threads |-> Uninit]
    /\ UNCHANGED <<pc, live, handles, jacVars, laVars, lcVars, trM, trN, inplace,
                   mem, Ain, srcPtr, blocksDone, written, readIdx, fault>>

\* thread (tx, ty): if (xIndex < M && yIndex < N)
\*                      block[threadIdx.y][threadIdx.x] = A[index_in];
\* then it waits at __syncthreads()
TrLoad ==
    /\ pc = "running"
    /\ blk # <<>>
    /\ \E t \in Threads :
          /\ tpc[t] = "load"
          /\ LET xIndex == blk[1] * BLOCK_DIM + t[1]
                 yIndex == blk[2] * BLOCK_DIM + t[2]
                 idx    == IndexIn(xIndex, yIndex, trM, trN)
                 inb    == idx >= 0 /\ idx < trM * trN
             IN  IF xIndex < trM /\ yIndex < trN
                 THEN /\ tile' = [tile EXCEPT ![<<t[2], t[1]>>] =
                                     IF inb THEN mem[srcPtr][idx] ELSE Uninit]
                      /\ readIdx' = readIdx \cup {idx}
                      /\ fault' = fault \cup (IF inb THEN {} ELSE {"oob"})
                                        \cup (IF srcPtr = DstPtr /\ idx \in written
                                              THEN {"race"} ELSE {})
                 ELSE UNCHANGED <<tile, readIdx, fault>>
          /\ tpc' = [tpc EXCEPT ![t] = "sync"]
    /\ UNCHANGED <<pc, live, handles, jacVars, laVars, lcVars, trM, trN, inplace,
                   mem, Ain, srcPtr, blk, blocksDone, written>>

\* thread (tx, ty), once every thread of the block is past the load:
\* if (xIndex < N && yIndex < M) B[index_out] = block[threadIdx.x][threadIdx.y];
TrStore ==
    /\ pc = "running"
    /\ blk # <<>>
    /\ \A u \in Threads : tpc[u] # "load"
    /\ \E t \in Threads :
          /\ tpc[t] = "sync"
          /\ LET xIndex == blk[2] * BLOCK_DIM + t[1]
                 yIndex == blk[1] * BLOCK_DIM + t[2]
                 idx    == IndexOut(xIndex, yIndex, trM, trN)
                 inb    == idx >= 0 /\ idx < trM * trN
                 v      == tile[<<t[1], t[2]>>]
                 own    == IndexIn(blk[1] * BLOCK_DIM + t[1],
                                   blk[2] * BLOCK_DIM + t[2], trM, trN)
             IN  IF xIndex < trN /\ yIndex < trM
                 THEN /\ mem' = IF inb THEN [mem EXCEPT ![DstPtr][idx] = v] ELSE mem
                      /\ written' = written \cup {idx}
                      /\ fault' = fault \cup (IF inb THEN {} ELSE {"oob"})
                                        \cup (IF v = Uninit THEN {"uninit"} ELSE {})
                                        \cup (IF idx \in written THEN {"race"} ELSE {})
                                        \cup (IF srcPtr = DstPtr /\ idx \in readIdx \ {own}
                                              THEN {"race"} ELSE {})
                 ELSE UNCHANGED <<mem, written, fault>>
          /\ tpc' = [tpc EXCEPT ![t] = "done"]
    /\ UNCHANGED <<pc, live, handles, jacVars, laVars, lcVars, trM, trN, inplace,
                   Ain, srcPtr, blk, blocksDone, tile, readIdx>>

\* the running block has finished
TrBlockEnd ==
    /\ pc = "running"
    /\ blk # <<>>
    /\ \A u \in Threads : tpc[u] = "done"
    /\ blocksDone' = blocksDone \cup {blk}
    /\ blk' = <<>>
    /\ pc' = IF blocksDone' = Blocks THEN "done" ELSE "running"
    /\ UNCHANGED <<live, handles, jacVars, laVars, lcVars, trM, trN, inplace, mem,
                   Ain, srcPtr, tpc, tile, written, readIdx, fault>>

NextTranspose ==
    \/ TrSnapshot
    \/ TrAlias
    \/ TrLaunch
    \/ TrBlockStart
    \/ TrLoad
    \/ TrStore
    \/ TrBlockEnd

SpecTranspose == InitTranspose /\ [][NextTranspose]_vars

(***************************************************************************)
(* Properties of transpose (checked under SpecTranspose).                  *)
(***************************************************************************)

\* C2: when the kernel has completed, B is the N x M column-major transpose
\* of the M x N column-major input, B[r*N + c] = A_in[c*M + r], also when
\* A == B; no thread reads a tile cell that was not written before the
\* barrier, none reads or writes a global index outside [0, M*N), and no
\* two threads conflict on a global cell.
C2_TransposeCorrect ==
    /\ fault = {}
    /\ pc = "done" =>
          \A r \in 0..(trM - 1) : \A c \in 0..(trN - 1) :
              mem[DstPtr][r * trN + c] = Ain[c * trM + r]

\* a completed in-place transpose of a 3 x 2 matrix (two blocks, the second
\* one partly masked)
C2_Witness ==
    /\ pc = "done"
    /\ inplace
    /\ trM = 3
    /\ trN = 2
    /\ Cardinality(blocksDone) = 2
    /\ mem["A"] # Ain
    /\ mem["A"][1] = Ain[3]

\* C7 (as claimed): every scratch device buffer a primitive allocates is
\* freed before the call returns; here the M*N snapshot of an in-place
\* transpose.
C7_Original ==
    pc \in {"running", "done"} => live = {}


(***************************************************************************)
(* Properties of the Jacobian estimators (checked under SpecJac).          *)
(***************************************************************************)

\* C1: in both variants, at the start of every loop iteration and when the
\* call returns, the parameter vector is bit-identical to its value at
\* call entry.
C1_ParamRestored ==
    pc \in {"loop", "scale", "free", "done"} => param = param0

\* a completed call with K = 2 in which both probes really changed their
\* coordinate
C1_Witness ==
    /\ pc = "done"
    /\ K = 2
    /\ Len(calls) = 3
    /\ calls[2].param[0] # param0[0]
    /\ calls[3].param[1] # param0[1]
    /\ param = param0

\* C4 (as claimed): in jacobian_v2, for a parameter that is 0.0 at entry the
\* step is exactly 1e-30, the scale factor is finite, and column i holds no
\* NaN or Inf when the evaluator's outputs are finite.
C4_Original ==
    (variant = "jacobian_v2" /\ pc = "restore" /\ IsZero(temp)) =>
        /\ dB = F1e30
        /\ IsFinite(scale)
        /\ (\A k \in 0..(N - 1) : IsFinite(prev[k]) /\ IsFinite(next[k]))
              => \A k \in 0..(N - 1) : IsFinite(J[i * N + k])

\* the step added to coordinate idx
StepAt(idx) == IF variant = "jacobian" THEN Eps17 ELSE StepV2(param0[idx])

\* C5 (as claimed): the factor that scales column i is the reciprocal of the
\* step that was added to param[i], and column i of J is the difference of
\* the perturbed and the baseline evaluation times that reciprocal.
C5_Original ==
    /\ (variant = "jacobian_v2" /\ pc = "restore") => scale = FRecipProd(dB, One)
    /\ pc = "done" =>
          \A c \in 0..(K - 1) :
              Slice(J, c * N, N) =
                  VectorMult(VectorSub(flinear(calls[c + 2].param, N),
                                       flinear(param0, N), N),
                             FRecipProd(StepAt(c), One), N)

\* C6 (as claimed): in jacobian_v2 the step is never zero and has magnitude
\* at least 1e-30: it is 1e-30 whenever |p * 2^-10| < 1e-30 and p * 2^-10
\* otherwise.  (F1e30 is the smallest float that is >= 1e-30.)
C6_Original ==
    (variant = "jacobian_v2" /\ pc = "probe") =>
        /\ ~IsZero(dB)
        /\ MagLeq(F1e30, dB)
        /\ dB = (IF MagLeq(F1e30, FMul(temp, Eps10)) THEN FMul(temp, Eps10) ELSE F1e30)

\* The evaluator is called first on the unperturbed vector into prev, then
\* once per parameter into next; K + 1 calls when the call returns.
CallOrder ==
    /\ Len(calls) <= K + 1
    /\ pc \in {"scale", "free", "done"} => Len(calls) = K + 1
    /\ \A c \in 1..Len(calls) :
          IF c = 1 THEN calls[c].buf = "prev" /\ calls[c].param = param0
          ELSE calls[c].buf = "next"

\* C8 (as claimed): K + 1 evaluator calls in order; at the i-th perturbed
\* call the vector differs from its entry value in coordinate i and in no
\* other; column i is written only between that call and the next.
C8_Original ==
    /\ CallOrder
    /\ \A c \in 2..Len(calls) : \A j \in 0..(NParams - 1) :
          (calls[c].param[j] # param0[j]) <=> (j = c - 2)
    /\ \A w \in 1..Len(jwrites) : jwrites[w].after = jwrites[w].col + 2
    /\ pc = "done" => \A c \in 0..(K - 1) : \E w \in 1..Len(jwrites) : jwrites[w].col = c

\* C8 (amended): K + 1 evaluator calls in order; at the i-th perturbed call
\* every coordinate other than i holds its entry value and coordinate i holds
\* the rounded sum of its entry value and the step (for a finite parameter
\* different from the entry value in jacobian_v2; in jacobian equal to it
\* when 2^-17 is absorbed by rounding); column i is first written between
\* that call and the next, and in jacobian every column is written once more
\* by the final scaling pass.
C8_Amended ==
    /\ CallOrder
    /\ \A c \in 2..Len(calls) :
          /\ \A j \in 0..(NParams - 1) : j # c - 2 => calls[c].param[j] = param0[j]
          /\ calls[c].param[c - 2] = FAdd(param0[c - 2], StepAt(c - 2))
          /\ variant = "jacobian_v2" => calls[c].param[c - 2] # param0[c - 2]
    /\ \A w \in 1..Len(jwrites) :
          IF w <= K
          THEN jwrites[w].col = w - 1 /\ jwrites[w].after = w + 1
          ELSE /\ variant = "jacobian"
               /\ pc \in {"free", "done"}
               /\ jwrites[w].col = w - K - 1
               /\ jwrites[w].after = K + 1
    /\ pc = "done" => Len(jwrites) = (IF variant = "jacobian" THEN 2 * K ELSE K)

\* a completed jacobian call with K = 2 whose first probe was absorbed by
\* rounding and whose columns were rewritten by the scaling pass
C8_Witness ==
    /\ pc = "done"
    /\ variant = "jacobian"
    /\ K = 2
    /\ Len(calls) = 3
    /\ calls[2].param = param0
    /\ calls[3].param[1] # param0[1]
    /\ Len(jwrites) = 4

(***************************************************************************)
(* matrix::mult, matrix::multD and fit::svd.  Matrix cells hold small      *)
(* integers (float arithmetic on them is exact).  The host makes up to     *)
(* MaxCalls calls, one after another.                                      *)
(***************************************************************************)
Scalars == {0 - 1, 2}

\* what a read outside a buffer may return
Garbage == {0, 9}

ReadAt(buf, idx, g) == IF idx \in DOMAIN buf THEN buf[idx] ELSE g

RECURSIVE SumTo(_, _)
SumTo(f, n) == IF n = 0 THEN 0 ELSE f[n - 1] + SumTo(f, n - 1)

\* cublasSgemm_v2 parameter check: A is lda x k (OP_N) or lda x m (OP_T),
\* B is ldb x n (OP_N) or ldb x k (OP_T), C is ldc x n
SgemmStatus(OA, OB, m, n, k, lda, ldb, ldc) ==
    IF /\ lda >= Max(1, IF OA = "N" THEN m ELSE k)
       /\ ldb >= Max(1, IF OB = "N" THEN k ELSE n)
       /\ ldc >= Max(1, m)
    THEN "SUCCESS" ELSE "INVALID_VALUE"

\* cublasSgemm_v2: C = alpha * op(A) * op(B) + beta * C, column-major with
\* leading dimensions lda, ldb, ldc; g is what a read outside A or B returns
Sgemm(OA, OB, m, n, k, al, A, lda, B, ldb, be, C, ldc, g) ==
    [idx \in DOMAIN C |->
        LET r == idx % ldc
            c == idx \div ldc
            opA(l) == IF OA = "N" THEN ReadAt(A, r + l * lda, g)
                      ELSE ReadAt(A, l + r * lda, g)
            opB(l) == IF OB = "N" THEN ReadAt(B, l + c * ldb, g)
                      ELSE ReadAt(B, c + l * ldb, g)
        IN  al * SumTo([l \in 0..(k - 1) |-> opA(l) * opB(l)], k) + be * C[idx]]

\* cublasSdgmm, CUBLAS_SIDE_LEFT: C = diag(x) * A, A and C m x n
Sdgmm(m, n, A, lda, x, incx, C, ldc) ==
    [idx \in DOMAIN C |-> x[(idx % ldc) * incx] * A[(idx % ldc) + (idx \div ldc) * lda]]

\* OA = (TA ? CUBLAS_OP_T : CUBLAS_OP_N)
OpOf(t) == IF t THEN "T" ELSE "N"

\* lda = M
MultLda(ta, m, n) == m

\* ldb = N
MultLdb(tb, n, k) == n

InitLinalg ==
    /\ pc = "idle"
    /\ live = {}
    /\ handles = 0
    /\ JacIdle
    /\ TrIdle
    /\ LcIdle
    /\ LaIdle

\* mult: cublasCreate(&cublasH); assert(...)
MultCreate ==
    /\ pc = "idle"
    /\ ncalls < MaxCalls
    /\ \E m \in 1..MaxMat, n \in 1..MaxMat, k \in 1..MaxMat, ta \in BOOLEAN, tb \in BOOLEAN,
          al \in Scalars, be \in Scalars :
          /\ laM' = m /\ laN' = n /\ laK' = k
          /\ TA' = ta /\ TB' = tb
          /\ alpha' = al /\ beta' = be
          /\ matA' = [idx \in 0..(m * n - 1) |-> idx + 1]
          /\ matB' = [idx \in 0..(n * k - 1) |-> 2 * idx + 3]
          /\ matC' = [idx \in 0..(m * k - 1) |-> 5]
    /\ op' = "mult"
    /\ status' = "SUCCESS"
    /\ handles' = handles + 1
    /\ pc' = "mult_memset"
    /\ UNCHANGED <<live, jacVars, trVars, lcVars, ncalls>>

\* cudaMemset(C, 0, M * K * sizeof(float));
MultMemset ==
    /\ pc = "mult_memset"
    /\ matC' = [idx \in 0..(laM * laK - 1) |-> 0]
    /\ pc' = "mult_gemm"
    /\ UNCHANGED <<live, handles, jacVars, trVars, lcVars, op, laM, laN, laK, TA, TB,
                   alpha, beta, matA, matB, status, ncalls>>

\* cublasSgemm_v2(cublasH, OA, OB, M, K, N, &alpha, A, M, B, N, &beta, C, M);
\* assert(CUBLAS_STATUS_SUCCESS == cublas_status); return
MultGemm ==
    /\ pc = "mult_gemm"
    /\ LET lda == MultLda(TA, laM, laN)
           ldb == MultLdb(TB, laN, laK)
           st  == SgemmStatus(OpOf(TA), OpOf(TB), laM, laK, laN, lda, ldb, laM)
       IN  /\ status' = st
           /\ IF st = "SUCCESS"
              THEN /\ \E g \in Garbage :
                         matC' = Sgemm(OpOf(TA), OpOf(TB), laM, laK, laN, alpha,
                                       matA, lda, matB, ldb, beta, matC, laM, g)
                   /\ pc' = "idle"
                   /\ ncalls' = ncalls + 1
              ELSE /\ pc' = "aborted"
                   /\ UNCHANGED <<matC, ncalls>>
    /\ UNCHANGED <<live, handles, jacVars, trVars, lcVars, op, laM, laN, laK, TA, TB,
                   alpha, beta, matA, matB>>

\* multD: cublasCreate(&cublasH); assert(...)
MultDCreate ==
    /\ pc = "idle"
    /\ ncalls < MaxCalls
    /\ \E m \in 1..MaxMat, n \in 1..MaxMat :
          /\ laM' = m /\ laN' = n
          /\ matA' = [idx \in 0..(m - 1) |-> idx + 2]
          /\ matB' = [idx \in 0..(m * n - 1) |-> idx + 1]
          /\ matC' = [idx \in 0..(m * n - 1) |-> 5]
    /\ op' = "multD"
    /\ laK' = 0 /\ TA' = FALSE /\ TB' = FALSE /\ alpha' = 0 /\ beta' = 0
    /\ status' = "SUCCESS"
    /\ handles' = handles + 1
    /\ pc' = "multD_memset"
    /\ UNCHANGED <<live, jacVars, trVars, lcVars, ncalls>>

\* gpuErrchk(cudaMemset(C, 0, M * N * sizeof(float)));
MultDMemset ==
    /\ pc = "multD_memset"
    /\ matC' = [idx \in 0..(laM * laN - 1) |-> 0]
    /\ pc' = "multD_dgmm"
    /\ UNCHANGED <<live, handles, jacVars, trVars, lcVars, op, laM, laN, laK, TA, TB,
                   alpha, beta, matA, matB, status, ncalls>>

\* cublasSdgmm(cublasH, CUBLAS_SIDE_LEFT, M, N, B, M, A, 1, C, M); assert; return
MultDDgmm ==
    /\ pc = "multD_dgmm"
    /\ matC' = Sdgmm(laM, laN, matB, laM, matA, 1, matC, laM)
    /\ status' = "SUCCESS"
    /\ pc' = "idle"
    /\ ncalls' = ncalls + 1
    /\ UNCHANGED <<live, handles, jacVars, trVars, lcVars, op, laM, laN, laK, TA, TB,
                   alpha, beta, matA, matB>>

\* svd: cusolverDnCreate(&cusolverH); assert(...)
SvdCreate ==
    /\ pc = "idle"
    /\ ncalls < MaxCalls
    /\ \E m \in 1..MaxMat, n \in 1..MaxMat :
          /\ laM' = m /\ laN' = n
          /\ matA' = [idx \in 0..(m * n - 1) |-> idx + 1]
    /\ op' = "svd"
    /\ laK' = 0 /\ TA' = FALSE /\ TB' = FALSE /\ alpha' = 0 /\ beta' = 0
    /\ matB' = <<>> /\ matC' = <<>>
    /\ status' = "SUCCESS"
    /\ handles' = handles + 1
    /\ pc' = "svd_workspace"
    /\ UNCHANGED <<live, jacVars, trVars, lcVars, ncalls>>

\* cusolverDnSgesvd_bufferSize(...); cudaMalloc(&work, ...); cudaMalloc(&devInfo, ...);
SvdWorkspace ==
    /\ pc = "svd_workspace"
    /\ live' = live \cup {"work", "devInfo"}
    /\ pc' = "svd_gesvd"
    /\ UNCHANGED <<handles, jacVars, trVars, laVars, lcVars>>

\* cusolverDnSgesvd(cusolverH, 'A', 'A', M, N, A, M, S, U, M, VT, N, work, lwork,
\* NULL, devInfo); cudaDeviceSynchronize(); assert(...).  The library supports
\* M >= N only; the factors themselves are not modelled.
SvdGesvd ==
    /\ pc = "svd_gesvd"
    /\ \E st \in (IF laM >= laN THEN {"SUCCESS"} ELSE {"SUCCESS", "INVALID_VALUE"}) :
          /\ status' = st
          /\ pc' = IF st = "SUCCESS" THEN "svd_release" ELSE "aborted"
    /\ UNCHANGED <<live, handles, jacVars, trVars, lcVars, op, laM, laN, laK, TA, TB,
                   alpha, beta, matA, matB, matC, ncalls>>

\* if (work) cudaFree(work); if (devInfo) cudaFree(devInfo);
\* if (cusolverH) cusolverDnDestroy(cusolverH); return
SvdRelease ==
    /\ pc = "svd_release"
    /\ live' = live \ {"work", "devInfo"}
    /\ handles' = handles - 1
    /\ pc' = "idle"
    /\ ncalls' = ncalls + 1
    /\ UNCHANGED <<jacVars, trVars, lcVars, op, laM, laN, laK, TA, TB, alpha, beta,
                   matA, matB, matC, status>>

NextLinalg ==
    \/ MultCreate
    \/ MultMemset
    \/ MultGemm
    \/ MultDCreate
    \/ MultDMemset
    \/ MultDDgmm
    \/ SvdCreate
    \/ SvdWorkspace
    \/ SvdGesvd
    \/ SvdRelease

SpecLinalg == InitLinalg /\ [][NextLinalg]_vars

(***************************************************************************)
(* Properties of mult, multD and svd (checked under SpecLinalg).           *)
(***************************************************************************)

\* alpha * op(A) * op(B) with A stored column-major as M x N (N x M when TA)
\* and B as N x K (K x N when TB)
MultExpected ==
    [idx \in 0..(laM * laK - 1) |->
        LET r == idx % laM
            c == idx \div laM
            opA(l) == IF TA THEN matA[l + r * laN] ELSE matA[r + l * laM]
            opB(l) == IF TB THEN matB[c + l * laK] ELSE matB[l + c * laN]
        IN  alpha * SumTo([l \in 0..(laN - 1) |-> opA(l) * opB(l)], laN)]

\* C3 (as claimed): for every M, N, K, every combination of TA and TB, every
\* alpha and beta and any prior C, the call is accepted by the GEMM routine
\* and leaves C = alpha * op(A) * op(B).
C3_Original ==
    (op = "mult" /\ pc \in {"idle", "aborted"}) =>
        /\ pc = "idle"
        /\ status = "SUCCESS"
        /\ matC = MultExpected

\* C9 (as claimed): every library handle created inside mult, multD or svd
\* is destroyed before the call returns: no handle is live between calls.
C9_Original ==
    pc = "idle" => handles = 0

(***************************************************************************)
(* fit::lincoef and its kernel fit::lincoef_.  A has 2N cells.             *)
(***************************************************************************)
threadsPerBlock == 2

\* (N + threadsPerBlock - 1) / threadsPerBlock
BlocksPerGrid(n) == (n + threadsPerBlock - 1) \div threadsPerBlock

\* i = blockDim.x * blockIdx.x + threadIdx.x over the whole grid
LcThreads ==
    { threadsPerBlock * b + x : b \in 0..(BlocksPerGrid(lcN) - 1),
                                x \in 0..(threadsPerBlock - 1) }

InitLincoef ==
    /\ pc = "entry"
    /\ live = {}
    /\ handles = 0
    /\ JacIdle
    /\ TrIdle
    /\ LaIdle
    /\ lcN \in 1..MaxCoefN
    /\ lcA = [idx \in 0..(2 * lcN - 1) |-> Junk]
    /\ lpc = <<>>
    /\ lcWrites = {}

\* lincoef_<<<blocksPerGrid, threadsPerBlock>>>(A, N);
LcLaunch ==
    /\ pc = "entry"
    /\ lpc' = [t \in LcThreads |-> "guard"]
    /\ pc' = "running"
    /\ UNCHANGED <<live, handles, jacVars, trVars, laVars, lcN, lcA, lcWrites>>

\* thread i: if (i < N) A[i] = i;
LcGuarded ==
    /\ pc = "running"
    /\ \E t \in LcThreads :
          /\ lpc[t] = "guard"
          /\ IF t < lcN
             THEN /\ lcA' = [lcA EXCEPT ![t] = FromInt(t)]
                  /\ lcWrites' = lcWrites \cup {<<t, t>>}
             ELSE UNCHANGED <<lcA, lcWrites>>
          /\ lpc' = [lpc EXCEPT ![t] = "second"]
    /\ UNCHANGED <<pc, live, handles, jacVars, trVars, laVars, lcN>>

\* thread i: A[N+i] = 1;  (not under the if)
LcSecond ==
    /\ pc = "running"
    /\ \E t \in LcThreads :
          /\ lpc[t] = "second"
          /\ lcA' = IF lcN + t \in DOMAIN lcA THEN [lcA EXCEPT ![lcN + t] = One] ELSE lcA
          /\ lcWrites' = lcWrites \cup {<<t, lcN + t>>}
          /\ lpc' = [lpc EXCEPT ![t] = "done"]
    /\ UNCHANGED <<pc, live, handles, jacVars, trVars, laVars, lcN>>

\* gpuErrchk(cudaDeviceSynchronize());
LcSync ==
    /\ pc = "running"
    /\ \A t \in LcThreads : lpc[t] = "done"
    /\ pc' = "done"
    /\ UNCHANGED <<live, handles, jacVars, trVars, laVars, lcVars>>

NextLincoef ==
    \/ LcLaunch
    \/ LcGuarded
    \/ LcSecond
    \/ LcSync

SpecLincoef == InitLincoef /\ [][NextLincoef]_vars

(***************************************************************************)
(* Properties of lincoef (checked under SpecLincoef).                      *)
(***************************************************************************)

\* C10 (as claimed): every write of lincoef_ goes to an index in [0, 2N),
\* threads with i >= N write nothing, and after the kernel A[i] = i and
\* A[N + i] = 1 for all i < N.
C10_Original ==
    /\ \A w \in lcWrites : w[2] >= 0 /\ w[2] < 2 * lcN /\ w[1] < lcN
    /\ pc = "done" =>
          \A t \in 0..(lcN - 1) : lcA[t] = FromInt(t) /\ lcA[lcN + t] = One

=============================================================================
